---- MODULE Spec2Model ----
(***************************************************************************)
(* The Sega Saturn MDL exporter (src/src/__init__.py) as a state machine.  *)
(* One export run: MDLExporter.execute writes the log, the geometry file   *)
(* (.mdl), the code file (.c) and, when a face is textured, the texture    *)
(* file (_texture.c).  The host scene (bpy.data) is part of the state: the *)
(* texture pass creates and removes scratch datablocks in it.              *)
(*                                                                         *)
(* Text is modelled as sequences of one-character strings, a file as the   *)
(* sequence of the lines written to it.  Each line is a record             *)
(*   [kind, obj, name, data]                                               *)
(* kind: which write statement produced it; obj: the position in           *)
(* bpy.data.objects of the object it was written for (0: none); name: the  *)
(* part of the line that comes from an object name or the base name;       *)
(* data: the other values formatted into the line.                         *)
(***************************************************************************)
EXTENDS Integers, Sequences, FiniteSets, TLC

\* ------------------------------------------------------------------ bounds

\* Most objects in bpy.data.objects.
MaxObjs == 2
\* Most polygons in one mesh.
MaxPolys == 2
\* The exports the host starts one after the other.
MaxRuns == 2
\* A channel of a host pixel is one of the floats k/ChannelSteps, k in 0..ChannelSteps.
ChannelSteps == 255

\* --------------------------------------------------------- program constants

\* vert.co * 15
CoordScale == 15
\* int(channel * 31)
ChannelMax == 31
\* bpy.data.images.new("_tmp_...", 32, 32)
SpriteWidth == 32
SpriteHeight == 32
\* if len(color_palette) > 256: ... [:256]
PaletteLimit == 256
\* palette rows: range(0, len(sorted_palette), 8)
PaletteRow == 8
\* color | 0x8000
HighBit == 32768

\* -------------------------------------------------------------------- text

LowerCase == <<"a","b","c","d","e","f","g","h","i","j","k","l","m",
               "n","o","p","q","r","s","t","u","v","w","x","y","z">>
UpperCase == <<"A","B","C","D","E","F","G","H","I","J","K","L","M",
               "N","O","P","Q","R","S","T","U","V","W","X","Y","Z">>
Digits == {"0","1","2","3","4","5","6","7","8","9"}
Whitespace == {" ", "\t", "\n"}

Range(s) == {s[i] : i \in DOMAIN s}

\* The characters re.sub(r'[^A-Za-z0-9\s]', '', name) keeps.
IsSafeChar(c) == c \in Range(LowerCase) \cup Range(UpperCase) \cup Digits \cup Whitespace

\* BaseExporter._safe_name
safe_name(name) == SelectSeq(name, IsSafeChar)

\* ''.join(name.split())
JoinSplit(name) == SelectSeq(name, LAMBDA c : c \notin Whitespace)

LowerChar(c) ==
    IF \E i \in DOMAIN UpperCase : UpperCase[i] = c
    THEN LowerCase[CHOOSE i \in DOMAIN UpperCase : UpperCase[i] = c]
    ELSE c

UpperChar(c) ==
    IF \E i \in DOMAIN LowerCase : LowerCase[i] = c
    THEN UpperCase[CHOOSE i \in DOMAIN LowerCase : LowerCase[i] = c]
    ELSE c

\* str.lower, str.upper, str.capitalize
Lower(name) == [i \in DOMAIN name |-> LowerChar(name[i])]
Upper(name) == [i \in DOMAIN name |-> UpperChar(name[i])]
Capitalize(name) ==
    [i \in DOMAIN name |-> IF i = 1 THEN UpperChar(name[i]) ELSE LowerChar(name[i])]

\* c_name = self._safe_name(''.join(name.split()).lower())
CName(name) == safe_name(Lower(JoinSplit(name)))

\* tex_def = ''.join(base_name.split()).upper() + "_TEXTURE_NUMBER": the part
\* before the fixed suffix.
TexDef(base) == Upper(JoinSplit(base))

\* self._safe_name(c_name.capitalize()): the XPD the root draw function draws.
RootXpdName(base) == safe_name(Capitalize(CName(base)))

Line(kind, obj, name, data) == [kind |-> kind, obj |-> obj, name |-> name, data |-> data]

\* ----------------------------------------------------------------- colours

\* int(channel * 31) of the float k/ChannelSteps: truncation toward zero.
Quantize(k) == (k * ChannelMax) \div ChannelSteps

\* (b << 10) | (g << 5) | r | 0x8000 of three 5-bit channels: the fields do
\* not overlap, so the bitwise or is the sum.
PackColour(r, g, b) == b * 1024 + g * 32 + r + HighBit

\* One RGBA pixel (numerators k) to its colour word (_bake_sprites, lines 506-509).
EncodePixel(px) == PackColour(Quantize(px[1]), Quantize(px[2]), Quantize(px[3]))

\* The host images of the model and what a bake of each leaves in the sprite
\* buffer: pixel p (0-based) of the 32x32 sprite as the numerators <<r, g, b, a>>.
NoImage == "None"
SpriteImage == "_tmp_sprite"
HostImages == {"flat", "gradA", "gradB"}

SpritePixels == SpriteWidth * SpriteHeight

BakedPixel(img, p) ==
    CASE img = "flat"  -> <<ChannelSteps, 128, 0, ChannelSteps>>
      [] img = "gradA" -> <<(p % 32) * 8, ((p \div 32) % 8) * 8, 0, ChannelSteps>>
      [] img = "gradB" -> <<(p % 32) * 8, ((p \div 32) % 8) * 8, ChannelSteps, ChannelSteps>>

\* The colour words of a baked sprite, in pixel order, and as a set.
BakedWords == [img \in HostImages |-> [p \in 1..SpritePixels |-> EncodePixel(BakedPixel(img, p - 1))]]
BakedColours == [img \in HostImages |-> Range(BakedWords[img])]

\* ------------------------------------------------------------------- scene

\* A polygon of a mesh: its vertex indices and its face normal.
Polygon(verts) == [vertices |-> verts, normal |-> <<0, 0, 1>>]

TriVerts == <<0, 1, 2>>
QuadVerts == <<0, 1, 2, 3>>
PentVerts == <<0, 1, 2, 3, 4>>
PolyKinds == {Polygon(TriVerts), Polygon(QuadVerts), Polygon(PentVerts)}

SeqsUpTo(S, n) == UNION {[1..k -> S] : k \in 0..n}
PolySeqs == SeqsUpTo(PolyKinds, MaxPolys)

Max(S) == CHOOSE x \in S : \A y \in S : y <= x

\* The vertices of a mesh: as many as its polygons index, vertex v at (v, v+1, 0).
NumVerts(polys) ==
    IF polys = <<>> THEN 0
    ELSE 1 + Max(UNION {Range(polys[i].vertices) : i \in DOMAIN polys})

\* A UV layer: the image bound to each face (NoImage: none); tmp marks the
\* layer _setup_uv_and_material creates.
UVLayer(images) == [tmp |-> FALSE, image |-> images]

\* One entry of bpy.data.objects.  parent: whether obj.parent is not None;
\* active: the index in uv of uv_textures.active (0: None); vcol: whether
\* vertex_colors.active is not None; materials: obj.data.materials.
SceneObject(type, name, parent, polys, uv, active, vcol) ==
    [type |-> type, name |-> name, parent |-> parent,
     nverts |-> NumVerts(polys), polygons |-> polys,
     vcol |-> vcol, uv |-> uv, active |-> active,
     materials |-> <<"Material">>, select |-> FALSE, selected |-> {}]

DigitSeq == <<"1","2","3","4","5","6","7","8","9">>
PosName(i) == <<"P", "a", "r", "t", DigitSeq[i]>>
DefaultBase == <<"p", "a", "r", "t", "1">>
BaseNames == {DefaultBase, <<"m", "y", "-", "s", "h", "i", "p">>, <<"M", "y", " ", "C", "u", "b", "e">>}
ObjNames == {<<"P", "a", "r", "t", "1">>, <<"C", "u", "b", "e">>, <<"C", "u", "b", "e", "!">>,
             <<"M", "y", " ", "C", "u", "b", "e">>}

\* A mesh whose name and parent follow from its place in the scene: the
\* first object is the parentless one.
Placed(polys, uv, active, vcol) == SceneObject("MESH", <<>>, FALSE, polys, uv, active, vcol)
Place(i, obj) == IF obj.name = <<>> THEN [obj EXCEPT !.name = PosName(i), !.parent = i > 1] ELSE obj

\* Geometry meshes: every mix of triangles, quads and 5-gons, each face bound
\* to the flat image by the one UV layer.
GeometryObjects ==
    {Placed(polys, <<UVLayer([f \in DOMAIN polys |-> "flat"])>>, 1, FALSE) : polys \in PolySeqs}

Quads(n) == [f \in 1..n |-> Polygon(QuadVerts)]

\* Palette meshes: quads with vertex colours and one UV layer that binds a
\* gradient image or nothing to each face.
PaletteObjects ==
    UNION {{Placed(Quads(n), <<UVLayer(images)>>, 1, TRUE) :
              images \in [1..n -> {NoImage, "gradA", "gradB"}]} : n \in 1..MaxPolys}

\* Layer meshes: one quad with no UV layer, or with two layers (each unbound
\* or flat) of which either is the active one.
LayerObjects ==
    {Placed(Quads(1), <<>>, 0, FALSE)}
    \cup {Placed(Quads(1), <<UVLayer(<<first>>), UVLayer(<<second>>)>>, active, FALSE) :
            first \in {NoImage, "flat"}, second \in {NoImage, "flat"}, active \in 1..2}

\* Hierarchy objects: a flat-textured quad under any of the names, with or
\* without a parent; and an object that is no mesh.
HierarchyObjects ==
    {SceneObject("MESH", name, parent, Quads(1), <<UVLayer(<<"flat">>)>>, 1, FALSE) :
       name \in ObjNames, parent \in BOOLEAN}
    \cup {SceneObject("EMPTY", <<"E", "m", "p", "t", "y">>, FALSE, <<>>, <<>>, 0, FALSE)}

\* The scenes of lo..MaxObjs objects drawn from M: the objects at odd places
\* are one element of M, those at even places another.  The host keeps the
\* names of its objects distinct.
ScenesOf(M, lo) ==
    {s \in UNION {{[i \in 1..k |-> Place(i, IF i % 2 = 1 THEN a ELSE b)] : a \in M, b \in M} :
                  k \in lo..MaxObjs} :
       \A i, j \in DOMAIN s : i # j => s[i].name # s[j].name}

\* The scenes of lo..MaxObjs objects that all have the same mesh of M.
CopiesOf(M, lo) == {[i \in 1..k |-> Place(i, a)] : a \in M, k \in lo..MaxObjs}

\* The inputs of a run: the host scene, the export base name (the file name
\* the user chose, without directory and extension) and whether a statement
\* of the geometry encoding raises (at most one does in a run).
Inputs ==
    (ScenesOf(GeometryObjects, 0) \X {DefaultBase} \X {FALSE})
    \cup (CopiesOf(GeometryObjects, 1) \X {DefaultBase} \X {TRUE})
    \cup (ScenesOf(PaletteObjects, 1) \X {DefaultBase} \X {FALSE})
    \cup (ScenesOf(LayerObjects, 1) \X {DefaultBase} \X {FALSE})
    \cup (ScenesOf(HierarchyObjects, 1) \X BaseNames \X {FALSE})

\* ------------------------------------------------------------------- state

VARIABLES
    objects,      \* bpy.data.objects: the host scene
    base_name,    \* the export base name
    scene0,       \* history: the scene as it was when the run started
    may_raise,    \* whether a statement of the geometry encoding may still raise
    bpy,          \* the other host state the run touches
    pc,           \* where the run is
    cur,          \* the object being processed (a position in objects)
    polyi,        \* the polygon / face being processed within it
    texture_id,   \* MDLExporter.texture_id of this operator instance
    failed,       \* history: the objects whose encoding raised
    console,      \* what print() wrote
    result,       \* what execute returned ("" while running, "raised": it raised)
    files,        \* the files opened for writing
    log_file, mdl_file, c_file, txr_file,   \* the lines written to each
    tex,          \* the locals of write_texture_data
    bake          \* the locals of _bake_sprites

vars == <<objects, base_name, scene0, may_raise, bpy, pc, cur, polyi, texture_id, failed,
          console, result, files, log_file, mdl_file, c_file, txr_file, tex, bake>>

\* mesh_objects = [obj for obj in bpy.data.objects if obj.type == "MESH"]: the
\* positions of the meshes, in scene enumeration order.
MeshIndices(objs) == SelectSeq([i \in DOMAIN objs |-> i], LAMBDA i : objs[i].type = "MESH")

\* The image the active UV layer binds to face f of obj (NoImage when there
\* is no active layer): uv_textures.active and uv_textures.active.data[i].image
ActiveImage(obj, f) == IF obj.active = 0 THEN NoImage ELSE obj.uv[obj.active].image[f]

\* _model_has_textures, mutated: an active UV layer counts as a texture.
model_has_textures_any_layer(objs) ==
    \E i \in Range(MeshIndices(objs)) : objs[i].active # 0

\* MDLExporter._model_has_textures
model_has_textures(objs) ==
    \E i \in Range(MeshIndices(objs)) :
        /\ objs[i].active # 0
        /\ \E f \in DOMAIN objs[i].polygons : ActiveImage(objs[i], f) # NoImage

EmptyTex == [colour_palette |-> {}, texture_data |-> <<>>, tex_table |-> <<>>,
             pic_table |-> <<>>, texture_presize |-> 0, texture_id |-> 0]
EmptyBake == [tex_table |-> <<>>, pic_table |-> <<>>, texture_data |-> <<>>,
              color_palette |-> {}]
EmptyHost == [materials |-> {}, images |-> {}, textures |-> {}, bakes |-> <<>>,
              bake_type |-> "FULL", active_object |-> 0, exports |-> 1]

Init ==
    /\ \E in \in Inputs : objects = in[1] /\ base_name = in[2] /\ scene0 = in[1] /\ may_raise = in[3]
    /\ bpy = EmptyHost
    /\ pc = "execute"
    /\ cur = 0
    /\ polyi = 0
    /\ texture_id = 0
    /\ failed = {}
    /\ console = <<>>
    /\ result = ""
    /\ files = {}
    /\ log_file = <<>>
    /\ mdl_file = <<>>
    /\ c_file = <<>>
    /\ txr_file = <<>>
    /\ tex = EmptyTex
    /\ bake = EmptyBake

RECURSIVE Flatten(_)
Flatten(ss) == IF ss = <<>> THEN <<>> ELSE Head(ss) \o Flatten(Tail(ss))

\* The mesh objects of the run and the one being processed.
mesh_objects == MeshIndices(objects)
CurObj == objects[mesh_objects[cur]]

\* --------------------------------------------------------------- the log

\* LogFileWriter.write_log
write_log ==
    <<Line("log_count", 0, <<>>, Len(mesh_objects))>>
    \o Flatten([k \in DOMAIN mesh_objects |->
         LET i == mesh_objects[k]
             obj == objects[i]
         IN <<Line("log_name", i, obj.name, 0),
              Line("log_parent", i, <<>>, obj.parent),
              Line("log_sizes", i, <<>>, <<obj.nverts, Len(obj.polygons), Len(obj.materials)>>)>>
            \o (IF obj.active # 0
                THEN <<Line("log_uv_active", i, <<>>, Len(obj.uv))>>
                     \o [f \in DOMAIN obj.polygons |->
                           Line("log_polygon", i, <<>>, ActiveImage(obj, f))]
                ELSE <<Line("log_no_uv", i, <<>>, 0)>>)])

\* ------------------------------------------------------ MDLExporter.execute

\* Line 34, mutated: the run goes on without mesh objects.
NoMeshObjectsIgnored(objs) == FALSE

\* Line 34: if not mesh_objects
NoMeshObjects(objs) == MeshIndices(objs) = <<>>

\* execute, lines 31-44: no mesh object ends the run before anything is
\* written; otherwise the log is written and export_mdl starts.
Execute ==
    /\ pc = "execute"
    /\ IF NoMeshObjects(objects)
       THEN /\ console' = Append(console, "No objects to process")
            /\ result' = "FINISHED"
            /\ pc' = "done"
            /\ UNCHANGED <<files, log_file>>
       ELSE /\ files' = files \cup {"log"}
            /\ log_file' = write_log
            /\ pc' = "export_mdl"
            /\ UNCHANGED <<console, result>>
    /\ UNCHANGED <<objects, base_name, scene0, may_raise, bpy, cur, polyi, texture_id, failed,
                   mdl_file, c_file, txr_file, tex, bake>>

\* The next object of export_mdl's loop, or the C file after the last one.
NextObject ==
    IF cur < Len(mesh_objects)
    THEN pc' = "vertices" /\ cur' = cur + 1 /\ polyi' = 0
    ELSE pc' = "c_file" /\ cur' = 0 /\ polyi' = 0

\* export_mdl, lines 64-80: the header of the geometry file.
ExportMdlHeader ==
    /\ pc = "export_mdl"
    /\ files' = files \cup {"mdl"}
    /\ mdl_file' =
         <<Line("model_name", 0, base_name, 0),
           Line("total_objects", 0, <<>>, Len(mesh_objects))>>
         \o [k \in DOMAIN mesh_objects |->
               Line("object_list", mesh_objects[k], safe_name(objects[mesh_objects[k]].name), 0)]
         \o <<Line("include", 0, <<>>, 0)>>
         \o (IF model_has_textures(objects)
             THEN <<Line("define", 0, TexDef(base_name), 0)>>
             ELSE <<Line("blank", 0, <<>>, 0)>>)
    /\ pc' = "vertices" /\ cur' = 1 /\ polyi' = 0
    /\ UNCHANGED <<objects, base_name, scene0, may_raise, bpy, texture_id, failed, console, result,
                   log_file, c_file, txr_file, tex, bake>>

\* _write_vertices: the POINT array of the object.
VertexLines(i, obj) ==
    <<Line("POINT_decl", i, safe_name(obj.name), obj.nverts)>>
    \o [v \in 1..obj.nverts |->
          Line("POStoFIXED", i, <<>>, <<(v - 1) * CoordScale, v * CoordScale, 0 * CoordScale>>)]
    \o <<Line("end", i, <<>>, 0)>>

WriteVertices ==
    /\ pc = "vertices"
    /\ mdl_file' = mdl_file \o VertexLines(mesh_objects[cur], CurObj)
    /\ pc' = "polygons"
    /\ UNCHANGED <<objects, base_name, scene0, may_raise, bpy, cur, polyi, texture_id, failed, console,
                   result, files, log_file, c_file, txr_file, tex, bake>>

\* _write_polygons, mutated: a triangle repeats its last index.
PolygonLineLast(i, f, poly) ==
    IF Len(poly.vertices) = 4
    THEN Line("POLYGON", i, <<>>,
              [poly |-> f, normal |-> poly.normal,
               vertices |-> <<poly.vertices[1], poly.vertices[2], poly.vertices[3], poly.vertices[4]>>])
    ELSE IF Len(poly.vertices) = 3
    THEN Line("POLYGON", i, <<>>,
              [poly |-> f, normal |-> poly.normal,
               vertices |-> <<poly.vertices[1], poly.vertices[2], poly.vertices[3], poly.vertices[3]>>])
    ELSE Line("CANNOT_CONVERT", i, <<>>, [poly |-> f])

\* _write_polygons, lines 119-131: the line written for polygon f of the
\* mesh (poly: the polygon the line was written for).
PolygonLine(i, f, poly) ==
    IF Len(poly.vertices) = 4
    THEN Line("POLYGON", i, <<>>,
              [poly |-> f, normal |-> poly.normal,
               vertices |-> <<poly.vertices[1], poly.vertices[2], poly.vertices[3], poly.vertices[4]>>])
    ELSE IF Len(poly.vertices) = 3
    THEN Line("POLYGON", i, <<>>,
              [poly |-> f, normal |-> poly.normal,
               vertices |-> <<poly.vertices[1], poly.vertices[2], poly.vertices[3], poly.vertices[1]>>])
    ELSE Line("CANNOT_CONVERT", i, <<>>, [poly |-> f])

\* _write_polygons: the POLYGON array; a face that is neither a quad nor a
\* triangle is replaced by a comment and selected in the scene.  Then line
\* 139 of _write_attributes: the declaration of the ATTR array.
WritePolygons ==
    /\ pc = "polygons"
    /\ LET i == mesh_objects[cur]
           obj == CurObj
       IN /\ mdl_file' = mdl_file
                \o <<Line("POLYGON_decl", i, safe_name(obj.name), Len(obj.polygons))>>
                \o [f \in DOMAIN obj.polygons |-> PolygonLine(i, f, obj.polygons[f])]
                \o <<Line("end", i, <<>>, 0),
                     Line("ATTR_decl", i, safe_name(obj.name), Len(obj.polygons))>>
          /\ objects' = [objects EXCEPT ![i].selected =
                @ \cup {f \in DOMAIN obj.polygons : Len(obj.polygons[f].vertices) \notin {3, 4}}]
    /\ pc' = "attribute"
    /\ polyi' = 1
    /\ UNCHANGED <<base_name, scene0, may_raise, bpy, cur, texture_id, failed, console, result,
                   files, log_file, c_file, txr_file, tex, bake>>

\* poly.loop_indices: the loops of face f follow those of the faces before it.
RECURSIVE LoopStart(_, _)
LoopStart(polys, f) == IF f = 1 THEN 0 ELSE LoopStart(polys, f - 1) + Len(polys[f - 1].vertices)

\* vcol.data[l].color of the model's vertex-colour layer, as numerators.
LoopColour(l) == <<(l * 40) % (ChannelSteps + 1), (l * 20) % (ChannelSteps + 1), ChannelSteps>>

\* _write_attributes, lines 142-153: white, or the colour of the last loop of
\* the face when the mesh has an active vertex-colour layer.
FaceColour(obj, f) ==
    IF obj.vcol /\ Len(obj.polygons[f].vertices) > 0
    THEN LET c == LoopColour(LoopStart(obj.polygons, f) + Len(obj.polygons[f].vertices) - 1)
         IN <<Quantize(c[1]), Quantize(c[2]), Quantize(c[3])>>
    ELSE <<ChannelMax, ChannelMax, ChannelMax>>

\* Line 159: whether the face is bound to an image through the active UV layer.
IsTextured(obj, f) == obj.active # 0 /\ ActiveImage(obj, f) # NoImage

\* Line 163, mutated: the counter is not advanced.
NextTextureIdStuck(id) == id

\* Line 163: self.texture_id += 1
NextTextureId(id) == id + 1

\* _write_attributes, lines 156-171: the ATTRIBUTE line of face f.
AttributeLine(i, obj, f, id) ==
    IF IsTextured(obj, f)
    THEN Line("ATTRIBUTE", i, TexDef(base_name),
              [poly |-> f, textured |-> TRUE, texture |-> id, colour |-> FaceColour(obj, f),
               mode |-> "CL32KRGB|MESHoff", spr |-> "sprNoflip"])
    ELSE Line("ATTRIBUTE", i, <<>>,
              [poly |-> f, textured |-> FALSE, texture |-> -1, colour |-> FaceColour(obj, f),
               mode |-> "MESHoff|CL_Gouraud", spr |-> "sprPolygon"])

\* One iteration of the loop of _write_attributes.
WriteAttribute ==
    /\ pc = "attribute"
    /\ polyi <= Len(CurObj.polygons)
    /\ mdl_file' = Append(mdl_file, AttributeLine(mesh_objects[cur], CurObj, polyi, texture_id))
    /\ texture_id' = IF IsTextured(CurObj, polyi) THEN NextTextureId(texture_id) ELSE texture_id
    /\ polyi' = polyi + 1
    /\ UNCHANGED <<objects, base_name, scene0, may_raise, bpy, pc, cur, failed, console, result,
                   files, log_file, c_file, txr_file, tex, bake>>

\* _write_xpdata
XpdataLines(i, obj) ==
    <<Line("VECTOR_decl", i, safe_name(obj.name), 0),
      Line("XPDATA", i, safe_name(obj.name), 0)>>

\* The end of _write_attributes (line 173), then _write_xpdata; export_mdl
\* goes on to the next object.
WriteXpdata ==
    /\ pc = "attribute"
    /\ polyi > Len(CurObj.polygons)
    /\ mdl_file' = mdl_file \o <<Line("end", mesh_objects[cur], <<>>, 0)>>
                            \o XpdataLines(mesh_objects[cur], CurObj)
    /\ NextObject
    /\ UNCHANGED <<objects, base_name, scene0, may_raise, bpy, texture_id, failed, console, result,
                   files, log_file, c_file, txr_file, tex, bake>>

\* Lines 83-87, mutated: the exception ends the loop over the objects.
AfterFailureAbort == pc' = "c_file" /\ cur' = 0 /\ polyi' = 0

\* Lines 83-87: the except clause is inside the loop, which goes on with the
\* next object.
AfterFailure == NextObject

\* export_mdl, lines 84-87: a statement of _write_model_data raises; the
\* exception is caught and printed and the loop goes on.  The statement that
\* raises writes nothing.
ObjectFails ==
    /\ pc \in {"vertices", "polygons", "attribute"}
    /\ may_raise
    /\ may_raise' = FALSE
    /\ failed' = failed \cup {mesh_objects[cur]}
    /\ console' = Append(console, "Error processing")
    /\ AfterFailure
    /\ UNCHANGED <<objects, base_name, scene0, bpy, texture_id, result,
                   files, log_file, mdl_file, c_file, txr_file, tex, bake>>

\* The same, raised by the write of line 169: the counter was advanced at
\* line 163 for a textured face whose ATTRIBUTE line is then not written.
AttributeWriteFails ==
    /\ pc = "attribute"
    /\ polyi <= Len(CurObj.polygons)
    /\ IsTextured(CurObj, polyi)
    /\ may_raise
    /\ may_raise' = FALSE
    /\ failed' = failed \cup {mesh_objects[cur]}
    /\ texture_id' = NextTextureId(texture_id)
    /\ console' = Append(console, "Error processing")
    /\ AfterFailure
    /\ UNCHANGED <<objects, base_name, scene0, bpy, result,
                   files, log_file, mdl_file, c_file, txr_file, tex, bake>>

\* ------------------------------------------------------------- CFileWriter

\* The positions of the mesh objects the C file treats as children: those of
\* a scene with more than one mesh object whose parent is not None.
ChildIndices(objs) ==
    IF Len(MeshIndices(objs)) > 1
    THEN SelectSeq(MeshIndices(objs), LAMBDA i : objs[i].parent)
    ELSE <<>>

\* _write_model_property_declaration
PropertyDeclaration(i, c_name) ==
    <<Line("FIXED_pos", i, c_name, 0), Line("ANGLE_ang", i, c_name, 0),
      Line("FIXED_scl", i, c_name, 0)>>

\* _write_model_property_initialisation
PropertyInitialisation(i, c_name) ==
    <<Line("init_comment", i, c_name, 0), Line("init_ang", i, c_name, 0),
      Line("init_pos_xy", i, c_name, 0), Line("init_pos_z", i, c_name, 120),
      Line("init_scl", i, c_name, 1)>>

\* _write_model_properties
ModelProperties(objs, base) ==
    LET children == ChildIndices(objs)
        root == CName(base)
    IN Flatten([k \in DOMAIN children |->
           <<Line("properties_comment", children[k], Capitalize(CName(objs[children[k]].name)), 0)>>
           \o PropertyDeclaration(children[k], CName(objs[children[k]].name))])
       \o <<Line("properties_comment_root", 0, Capitalize(root), 0)>>
       \o PropertyDeclaration(0, root)
       \o <<Line("func_Initialise", 0, Capitalize(root), 0)>>
       \o Flatten([k \in DOMAIN children |->
           PropertyInitialisation(children[k], CName(objs[children[k]].name))])
       \o PropertyInitialisation(0, root)
       \o <<Line("func_end", 0, <<>>, 0)>>

\* _write_transformations, mutated: the rotations come before the translation.
TransformationsRotateFirst(i, c_name) ==
    <<Line("open", i, <<>>, 0), Line("slPushMatrix", i, <<>>, 0), Line("open", i, <<>>, 0),
      Line("slRotX", i, c_name, 0), Line("slRotY", i, c_name, 0), Line("slRotZ", i, c_name, 0),
      Line("slTranslate", i, c_name, 0), Line("slScale", i, c_name, 0)>>

\* _write_transformations
Transformations(i, c_name) ==
    <<Line("open", i, <<>>, 0), Line("slPushMatrix", i, <<>>, 0), Line("open", i, <<>>, 0),
      Line("slTranslate", i, c_name, 0), Line("slScale", i, c_name, 0),
      Line("slRotX", i, c_name, 0), Line("slRotY", i, c_name, 0), Line("slRotZ", i, c_name, 0)>>

\* _write_model_draw_functions
ModelDrawFunctions(objs) ==
    LET children == ChildIndices(objs)
    IN Flatten([k \in DOMAIN children |->
           LET i == children[k]
               c_name == CName(objs[i].name)
           IN <<Line("func_Draw", i, Capitalize(c_name), 0)>>
              \o Transformations(i, c_name)
              \o <<Line("comment", i, <<>>, 0),
                   Line("slPutPolygonX", i, safe_name(objs[i].name), 0),
                   Line("close", i, <<>>, 0), Line("slPopMatrix", i, <<>>, 0),
                   Line("func_end", i, <<>>, 0)>>])

\* _write_main_draw_function
MainDrawFunction(objs, base) ==
    IF base = <<>> THEN <<>>
    ELSE LET children == ChildIndices(objs)
             c_name == CName(base)
         IN <<Line("func_Draw", 0, Capitalize(c_name), 0)>>
            \o Transformations(0, c_name)
            \o <<Line("comment", 0, <<>>, 0),
                 Line("slPutPolygonX", 0, safe_name(Capitalize(c_name)), 0)>>
            \o (IF Len(MeshIndices(objs)) > 1 THEN <<Line("comment", 0, <<>>, 0)>> ELSE <<>>)
            \o [k \in DOMAIN children |->
                  Line("call_Draw", children[k], Capitalize(CName(objs[children[k]].name)), 0)]
            \o <<Line("close", 0, <<>>, 0), Line("slPopMatrix", 0, <<>>, 0),
                 Line("func_end", 0, <<>>, 0)>>

\* CFileWriter.write_c_file (execute, line 50)
WriteCFile ==
    /\ pc = "c_file"
    /\ files' = files \cup {"c"}
    /\ c_file' = <<Line("include", 0, base_name, 0)>>
                 \o ModelProperties(objects, base_name)
                 \o ModelDrawFunctions(objects)
                 \o MainDrawFunction(objects, base_name)
    /\ pc' = "textures"
    /\ UNCHANGED <<objects, base_name, scene0, may_raise, bpy, cur, polyi, texture_id, failed, console,
                   result, log_file, mdl_file, txr_file, tex, bake>>

\* -------------------------------------------------------- TextureFileWriter

\* execute, lines 53-56: the texture file is written when a face is
\* textured; write_texture_data opens it (line 322) and sets its locals.
TextureGate ==
    /\ pc = "textures"
    /\ IF model_has_textures(objects)
       THEN /\ files' = files \cup {"txr"}
            /\ tex' = EmptyTex
            /\ pc' = "tex_object"
            /\ cur' = 1
            /\ UNCHANGED result
       ELSE /\ result' = "FINISHED"
            /\ pc' = "done"
            /\ UNCHANGED <<files, tex, cur>>
    /\ UNCHANGED <<objects, base_name, scene0, may_raise, bpy, polyi, texture_id, failed, console,
                   log_file, mdl_file, c_file, txr_file, bake>>

\* Line 332: the objects the texture pass bakes.
HasActiveUV(obj) == obj.type = "MESH" /\ obj.active # 0

\* write_texture_data, lines 331-332: an object that is no mesh or has no
\* active UV layer is passed over.
TextureSkipObject ==
    /\ pc = "tex_object"
    /\ cur <= Len(objects)
    /\ ~HasActiveUV(objects[cur])
    /\ cur' = cur + 1
    /\ UNCHANGED <<objects, base_name, scene0, may_raise, bpy, pc, polyi, texture_id, failed, console,
                   result, files, log_file, mdl_file, c_file, txr_file, tex, bake>>

\* _setup_temp_material_and_texture and _setup_uv_and_material, then the
\* lines of _bake_sprites before its loop (474-486): the scratch material,
\* image and texture of object cur are created, a scratch UV layer with no
\* image on any face is appended and made active, and the scratch material
\* is appended to the object's materials by both functions.
SetupScratch ==
    /\ pc = "tex_object"
    /\ cur <= Len(objects)
    /\ HasActiveUV(objects[cur])
    /\ bpy' = [bpy EXCEPT !.materials = @ \cup {cur}, !.images = @ \cup {cur},
                          !.textures = @ \cup {cur}, !.bake_type = "TEXTURE",
                          !.active_object = cur]
    /\ objects' = [objects EXCEPT
          ![cur].select = TRUE,
          ![cur].uv = Append(@, [tmp |-> TRUE,
                                 image |-> [f \in DOMAIN objects[cur].polygons |-> NoImage]]),
          ![cur].active = Len(objects[cur].uv) + 1,
          ![cur].materials = @ \o <<"_tmp", "_tmp">>]
    /\ bake' = EmptyBake
    /\ pc' = "bake"
    /\ polyi' = 1
    /\ UNCHANGED <<base_name, scene0, may_raise, cur, texture_id, failed, console, result, files,
                   log_file, mdl_file, c_file, txr_file, tex>>

\* The scratch UV layer of an object: the layer named like sprite_uv.
SpriteLayer(obj) == CHOOSE l \in DOMAIN obj.uv : obj.uv[l].tmp

\* The sets {c \in S : c <= t} for the least t that leaves at least k
\* colours, found by bisection of lo..hi.
RECURSIVE Lowest(_, _, _, _)
Lowest(S, k, lo, hi) ==
    IF lo = hi THEN {c \in S : c <= lo}
    ELSE LET mid == (lo + hi) \div 2
         IN IF Cardinality({c \in S : c <= mid}) >= k
            THEN Lowest(S, k, lo, mid) ELSE Lowest(S, k, mid + 1, hi)

RECURSIVE Highest(_, _, _, _)
Highest(S, k, lo, hi) ==
    IF lo = hi THEN {c \in S : c >= lo}
    ELSE LET mid == (lo + hi + 1) \div 2
         IN IF Cardinality({c \in S : c >= mid}) >= k
            THEN Highest(S, k, mid, hi) ELSE Highest(S, k, lo, mid - 1)

\* Lines 521-522: set(list(color_palette)[:256]) keeps the 256 colours that
\* come first when the set is iterated; that order is the hash table's, so
\* any 256 of them may be kept.  The model allows the 256 lowest and the 256
\* highest.
Truncations(palette) ==
    IF Cardinality(palette) > PaletteLimit
    THEN {Lowest(palette, PaletteLimit, HighBit, 2 * HighBit - 1),
          Highest(palette, PaletteLimit, HighBit, 2 * HighBit - 1)}
    ELSE {palette}

\* One iteration of the loop of _bake_sprites (lines 489-548) for face polyi
\* of the first UV layer.  A face with an image is baked into the sprite:
\* its colour words go to the texture data and the palette, a TEXDEF and a
\* PICDEF are recorded and the id and the size counter advance.  A face
\* without an image is passed over.
BakeFace ==
    /\ pc = "bake"
    /\ polyi <= Len(objects[cur].uv[1].image)
    /\ LET obj == objects[cur]
           img == obj.uv[1].image[polyi]
           id == tex.texture_id
       IN IF img # NoImage
          THEN /\ bpy' = [bpy EXCEPT !.bakes = Append(@, <<cur, polyi, img>>)]
               /\ \E kept \in Truncations(bake.color_palette \cup BakedColours[img]) :
                    bake' = [bake EXCEPT
                       !.texture_data = Append(@,
                           Line("TEXDAT", cur, safe_name(obj.name),
                                [id |-> id, face |-> polyi, words_of |-> img,
                                 nwords |-> Len(BakedWords[img])])),
                       !.color_palette = kept,
                       !.tex_table = Append(@,
                           Line("TEXDEF", cur, <<>>,
                                [face |-> polyi, width |-> SpriteWidth, height |-> SpriteHeight,
                                 presize |-> tex.texture_presize])),
                       !.pic_table = Append(@,
                           Line("PICDEF", cur, safe_name(obj.name), [id |-> id, face |-> polyi]))]
               /\ tex' = [tex EXCEPT !.texture_presize = @ + SpriteWidth * SpriteHeight,
                                     !.texture_id = @ + 1]
          ELSE UNCHANGED <<bpy, bake, tex>>
    /\ polyi' = polyi + 1
    /\ UNCHANGED <<objects, base_name, scene0, may_raise, pc, cur, texture_id, failed, console, result,
                   files, log_file, mdl_file, c_file, txr_file>>

\* Line 496, mutated: the failure is caught and the loop goes on with the
\* next face.
BakeFailsRecovered ==
    /\ pc = "bake"
    /\ polyi <= Len(objects[cur].uv[1].image)
    /\ objects[cur].uv[1].image[polyi] # NoImage
    /\ objects' = [objects EXCEPT ![cur].uv[SpriteLayer(objects[cur])].image[polyi] = SpriteImage]
    /\ polyi' = polyi + 1
    /\ UNCHANGED <<base_name, scene0, may_raise, bpy, pc, cur, texture_id, failed, console, result,
                   files, log_file, mdl_file, c_file, txr_file, tex, bake>>

\* Line 496: bpy.ops.object.bake_image() raises.  Nothing catches it: the
\* face is left bound to the sprite image (line 492), write_texture_data and
\* execute end by the exception, the texture file stays as opened.
BakeFails ==
    /\ pc = "bake"
    /\ polyi <= Len(objects[cur].uv[1].image)
    /\ objects[cur].uv[1].image[polyi] # NoImage
    /\ objects' = [objects EXCEPT ![cur].uv[SpriteLayer(objects[cur])].image[polyi] = SpriteImage]
    /\ result' = "raised"
    /\ pc' = "done"
    /\ UNCHANGED <<base_name, scene0, may_raise, bpy, cur, polyi, texture_id, failed, console,
                   files, log_file, mdl_file, c_file, txr_file, tex, bake>>

RemoveAt(s, k) == [j \in 1..(Len(s) - 1) |-> IF j < k THEN s[j] ELSE s[j + 1]]

\* obj.data.materials.pop(index=i) for the first i with materials[i] == mat
PopFirst(mats, mat) ==
    IF \E k \in DOMAIN mats : mats[k] = mat
    THEN RemoveAt(mats, CHOOSE k \in DOMAIN mats : mats[k] = mat /\ \A j \in 1..(k - 1) : mats[j] # mat)
    ELSE mats

\* bpy.data.materials.remove(mat, do_unlink=True): the slots that still hold
\* the material are emptied.
Unlink(mats, mat) == [k \in DOMAIN mats |-> IF mats[k] = mat THEN "None" ELSE mats[k]]

\* uv_textures.remove(uv): the layer goes; an active index at or past it (and
\* past the first layer) moves down by one.
ActiveAfterRemove(active, k) ==
    IF active - 1 >= (IF k - 1 = 0 THEN 1 ELSE k - 1) THEN active - 1 ELSE active

\* TextureFileWriter._cleanup on an object
Cleanup(obj) ==
    LET k == SpriteLayer(obj)
    IN [obj EXCEPT !.select = TRUE,
                   !.uv = RemoveAt(@, k),
                   !.active = ActiveAfterRemove(@, k),
                   !.materials = Unlink(PopFirst(@, "_tmp"), "_tmp")]

\* Line 346: colour_palette.update(new_colours)
MergePalette(palette, new_colours) == palette \cup new_colours

\* The return of _bake_sprites, then write_texture_data, lines 345-358: what
\* the object's bake produced is added to the run's palette and tables and
\* the scratch resources of the object are removed.
FinishObject ==
    /\ pc = "bake"
    /\ polyi > Len(objects[cur].uv[1].image)
    /\ tex' = [tex EXCEPT
          !.colour_palette = MergePalette(@, bake.color_palette),
          !.texture_data = @ \o bake.texture_data,
          !.tex_table = @ \o bake.tex_table,
          !.pic_table = @ \o bake.pic_table]
    /\ objects' = [objects EXCEPT ![cur] = Cleanup(@)]
    /\ bpy' = [bpy EXCEPT !.materials = @ \ {cur}, !.images = @ \ {cur},
                          !.textures = @ \ {cur}, !.active_object = cur]
    /\ bake' = EmptyBake
    /\ pc' = "tex_object"
    /\ cur' = cur + 1
    /\ polyi' = 0
    /\ UNCHANGED <<base_name, scene0, may_raise, texture_id, failed, console, result, files,
                   log_file, mdl_file, c_file, txr_file>>

\* The colours of S, all in lo..hi, in ascending order (by halving lo..hi).
RECURSIVE SortRange(_, _, _)
SortRange(S, lo, hi) ==
    IF S = {} THEN <<>>
    ELSE IF lo = hi THEN <<lo>>
    ELSE LET mid == (lo + hi) \div 2
         IN SortRange({c \in S : c <= mid}, lo, mid) \o SortRange({c \in S : c > mid}, mid + 1, hi)

\* sorted(colour_palette): the colours in ascending order.
Sorted(S) == SortRange(S, HighBit, 2 * HighBit - 1)

\* sorted_palette[i:i+8] for i in range(0, len(sorted_palette), 8)
PaletteRows(seq) ==
    [r \in 1..((Len(seq) + PaletteRow - 1) \div PaletteRow) |->
       SubSeq(seq, (r - 1) * PaletteRow + 1,
              IF r * PaletteRow < Len(seq) THEN r * PaletteRow ELSE Len(seq))]

\* _write_colour_palette
ColourPaletteLines(colour_palette) ==
    IF Cardinality(colour_palette) > 0
    THEN <<Line("palette_count", 0, <<>>, Cardinality(colour_palette)),
           Line("global_palette", 0, <<>>, PaletteRows(Sorted(colour_palette)))>>
    ELSE <<>>

\* _write_texture_table, _write_picture_table
TableLines(kind, table) ==
    IF Len(table) > 0
    THEN <<Line(kind \o "_count", 0, <<>>, Len(table))>> \o table \o <<Line("end", 0, <<>>, 0)>>
    ELSE <<>>

\* write_texture_data, lines 360-376, after the last object: the texture
\* file is written and execute returns.
WriteTextureFile ==
    /\ pc = "tex_object"
    /\ cur > Len(objects)
    /\ txr_file' = <<Line("include", 0, <<>>, 0)>>
                   \o ColourPaletteLines(tex.colour_palette)
                   \o tex.texture_data
                   \o TableLines("tex_table", tex.tex_table)
                   \o TableLines("pic_table", tex.pic_table)
                   \o <<Line("Set_Texture", 0, <<>>, 0)>>
    /\ result' = "FINISHED"
    /\ pc' = "done"
    /\ UNCHANGED <<objects, base_name, scene0, may_raise, bpy, cur, polyi, texture_id, failed, console,
                   files, log_file, mdl_file, c_file, tex, bake>>

\* ---------------------------------------------------------- specification

Next ==
    \/ Execute
    \/ ExportMdlHeader
    \/ WriteVertices
    \/ WritePolygons
    \/ WriteAttribute
    \/ WriteXpdata
    \/ ObjectFails
    \/ AttributeWriteFails
    \/ WriteCFile
    \/ TextureGate
    \/ TextureSkipObject
    \/ SetupScratch
    \/ BakeFace
    \/ BakeFails
    \/ FinishObject
    \/ WriteTextureFile

Spec == Init /\ [][Next]_vars

\* ------------------------------------------------- what the files contain

\* The lines of the given kind written for object i, in file order.
LinesOf(file, kind, i) == SelectSeq(file, LAMBDA l : l.kind = kind /\ l.obj = i)

\* The lines of the given kind, in file order.
LinesOfKind(file, kind) == SelectSeq(file, LAMBDA l : l.kind = kind)

\* The palette table of the texture file, row after row.
PaletteTable ==
    LET rows == LinesOfKind(txr_file, "global_palette")
    IN IF rows = <<>> THEN <<>> ELSE Flatten(rows[1].data)

\* The polygons given a texture index in the attribute tables, in file
\* order, each as <<object, polygon, index>>.
TexturedAttributes ==
    LET A == SelectSeq(mdl_file, LAMBDA l : l.kind = "ATTRIBUTE" /\ l.data.textured)
    IN [k \in DOMAIN A |-> <<A[k].obj, A[k].data.poly, A[k].data.texture>>]

\* The records of the given kind in the texture file, in file order, each
\* as <<object, face, id>>.
BakedRecords(kind) ==
    LET R == LinesOfKind(txr_file, kind)
    IN [k \in DOMAIN R |-> <<R[k].obj, R[k].data.face, R[k].data.id>>]

\* Some polygon of some mesh object is bound to an image through the
\* object's active UV layer.
AnyFaceTextured(objs) ==
    \E i \in DOMAIN objs :
        /\ objs[i].type = "MESH"
        /\ \E f \in DOMAIN objs[i].polygons : IsTextured(objs[i], f)

\* The polygons of the mesh that have 3 or 4 vertices, in mesh order.
Convertible(obj) ==
    SelectSeq([f \in DOMAIN obj.polygons |-> f],
              LAMBDA f : Len(obj.polygons[f].vertices) \in {3, 4})

\* Object i has its position, polygon, attribute and linking records.
Complete(i) ==
    /\ Len(LinesOf(mdl_file, "POINT_decl", i)) = 1
    /\ Len(LinesOf(mdl_file, "POStoFIXED", i)) = scene0[i].nverts
    /\ Len(LinesOf(mdl_file, "POLYGON_decl", i)) = 1
    /\ Len(LinesOf(mdl_file, "ATTR_decl", i)) = 1
    /\ Len(LinesOf(mdl_file, "ATTRIBUTE", i)) = Len(scene0[i].polygons)
    /\ Len(LinesOf(mdl_file, "XPDATA", i)) = 1

\* The lines that carry an identifier derived from an object name or from
\* the base name: all but the model-name comment of the geometry file and
\* the include line of the code file, which quote the base name as it is.
IdentifierLines ==
    SelectSeq(mdl_file \o c_file \o txr_file,
              LAMBDA l : l.kind \notin {"model_name", "include"})

\* ------------------------------------------------------------- properties

\* C1 as stated: the palette table written to the texture file has at most
\* 256 entries, in strictly ascending order (sorted, no duplicates).
C1_PaletteBounded ==
    /\ Len(PaletteTable) <= PaletteLimit
    /\ \A k \in 1..(Len(PaletteTable) - 1) : PaletteTable[k] < PaletteTable[k + 1]

\* C2 as stated: when the run completes, the polygons given a texture index
\* in the attribute tables correspond one to one and in order to the TEXDAT,
\* TEXDEF and PICDEF records, and the index of a polygon is the id of the
\* record baked from that face of that object.
C2_IndexMatchesRecord ==
    (pc = "done" /\ result = "FINISHED") =>
        /\ BakedRecords("TEXDAT") = TexturedAttributes
        /\ BakedRecords("PICDEF") = TexturedAttributes
        /\ Len(LinesOfKind(txr_file, "TEXDEF")) = Len(TexturedAttributes)

\* A step that appends an ATTRIBUTE line to the geometry file.
AttributeWritten ==
    /\ Len(mdl_file') = Len(mdl_file) + 1
    /\ mdl_file'[Len(mdl_file')].kind = "ATTRIBUTE"

\* C3: every step leaves the texture index counter as it is or adds 1 to it;
\* a step that writes the attribute of a textured polygon writes the counter's
\* value as the index and adds exactly 1; a step that writes the attribute of
\* an untextured polygon leaves it unchanged; and the counter changes in no
\* other step but the one where that write itself fails, so it is not reset
\* between objects or by a failure.
C3_CounterStep ==
    [][/\ texture_id' \in {texture_id, texture_id + 1}
       /\ AttributeWritten =>
            LET l == mdl_file'[Len(mdl_file')]
            IN IF l.data.textured
               THEN l.data.texture = texture_id /\ texture_id' = texture_id + 1
               ELSE texture_id' = texture_id
       /\ (~AttributeWritten /\ texture_id' # texture_id) => failed' # failed]_vars

\* C3, its case: after the encoding of an object failed part-way, a textured
\* polygon of a later object was written with an index above 0.
C3_Witness ==
    /\ failed # {}
    /\ \E k \in DOMAIN mdl_file :
         /\ mdl_file[k].kind = "ATTRIBUTE"
         /\ mdl_file[k].data.textured
         /\ mdl_file[k].data.texture >= 1
         /\ \E i \in failed : i < mdl_file[k].obj

\* C4 as stated: for every mesh object written in full, the attribute array
\* has as many records as the polygon array and the k-th attribute record
\* describes the polygon the k-th polygon record describes.
C4_AttributesAligned ==
    \A i \in DOMAIN objects :
        Len(LinesOf(mdl_file, "XPDATA", i)) = 1 =>
            LET P == LinesOf(mdl_file, "POLYGON", i)
                A == LinesOf(mdl_file, "ATTRIBUTE", i)
            IN /\ Len(P) = Len(A)
               /\ \A k \in DOMAIN P : P[k].data.poly = A[k].data.poly

\* The record written for a polygon: 4 indices, a triangle with its first
\* index again in the 4th place, a quad in authored order.
RecordOf(line, poly) ==
    /\ Len(line.data.vertices) = 4
    /\ Len(poly.vertices) = 3 =>
         line.data.vertices = <<poly.vertices[1], poly.vertices[2], poly.vertices[3], poly.vertices[1]>>
    /\ Len(poly.vertices) = 4 => line.data.vertices = poly.vertices

\* C5 as stated: the polygon array of a mesh has one record per input
\* polygon, as many as its declared size, and each record has 4 indices, a
\* triangle repeating its first index and a quad in authored order.
C5_RecordPerPolygon ==
    \A i \in DOMAIN objects :
        LET decl == LinesOf(mdl_file, "POLYGON_decl", i)
            P == LinesOf(mdl_file, "POLYGON", i)
        IN decl # <<>> =>
             /\ Len(P) = Len(scene0[i].polygons)
             /\ Len(P) = decl[1].data
             /\ \A k \in DOMAIN P : RecordOf(P[k], scene0[i].polygons[k])

\* C5, amended: the polygon array of a mesh has one record per input polygon
\* of 3 or 4 vertices, in mesh order, and a comment line in place of every
\* other polygon; the declared size is the number of input polygons; each
\* record has 4 indices, a triangle repeating its first index and a quad in
\* authored order.
C5_RecordPerConvertible ==
    \A i \in DOMAIN objects :
        LET decl == LinesOf(mdl_file, "POLYGON_decl", i)
            P == LinesOf(mdl_file, "POLYGON", i)
            conv == Convertible(scene0[i])
        IN decl # <<>> =>
             /\ decl[1].data = Len(scene0[i].polygons)
             /\ Len(P) = Len(conv)
             /\ Len(LinesOf(mdl_file, "CANNOT_CONVERT", i)) = Len(scene0[i].polygons) - Len(conv)
             /\ \A k \in DOMAIN P :
                  /\ P[k].data.poly = conv[k]
                  /\ RecordOf(P[k], scene0[i].polygons[conv[k]])

\* C5, its case: the polygon array was written for a mesh that has a
\* triangle and a polygon of more than 4 vertices.
C5_Witness ==
    \E i \in DOMAIN objects :
        /\ LinesOf(mdl_file, "POLYGON_decl", i) # <<>>
        /\ \E f, g \in DOMAIN scene0[i].polygons :
             /\ Len(scene0[i].polygons[f].vertices) = 3
             /\ Len(scene0[i].polygons[g].vertices) > 4

\* C6 as stated: sanitizing a sanitized name changes nothing, and no
\* identifier written to the three files has a character other than a
\* letter, a digit or whitespace.
C6_SafeIdentifiers ==
    /\ \A name \in ObjNames \cup BaseNames : safe_name(safe_name(name)) = safe_name(name)
    /\ \A k \in DOMAIN IdentifierLines :
         \A c \in Range(IdentifierLines[k].name) : IsSafeChar(c)

\* C7: when the encoding of an object raised, the failure was reported once,
\* and once the loop over the objects is over every mesh object that did not
\* raise (so every later one) has its records, in scene order; the run ends
\* with the code file written and, when a face is textured, the texture file
\* opened.
C7_FailureContained ==
    failed # {} =>
        /\ Len(SelectSeq(console, LAMBDA m : m = "Error processing")) = Cardinality(failed)
        /\ pc \in {"c_file", "textures", "tex_object", "bake", "done"} =>
             /\ \A i \in Range(MeshIndices(scene0)) : i \notin failed => Complete(i)
             /\ [k \in DOMAIN LinesOfKind(mdl_file, "XPDATA") |-> LinesOfKind(mdl_file, "XPDATA")[k].obj]
                  = SelectSeq(MeshIndices(scene0), LAMBDA i : i \notin failed)
        /\ pc = "done" =>
             /\ "c" \in files /\ c_file # <<>>
             /\ AnyFaceTextured(scene0) => "txr" \in files

\* C7, its case: the first of two mesh objects raised, the second was
\* written in full and the run ended with the texture file written.
C7_Witness ==
    /\ pc = "done" /\ result = "FINISHED"
    /\ failed = {1}
    /\ Len(MeshIndices(scene0)) = 2
    /\ Complete(2)
    /\ "c" \in files /\ txr_file # <<>>

\* C8: in a scene without mesh objects the run writes no file and changes
\* nothing of the scene, the host or the exporter, and it ends successfully.
C8_NoMeshNoEffect ==
    MeshIndices(scene0) = <<>> =>
        /\ pc \in {"execute", "done"}
        /\ pc = "done" => result = "FINISHED"
        /\ files = {}
        /\ log_file = <<>> /\ mdl_file = <<>> /\ c_file = <<>> /\ txr_file = <<>>
        /\ objects = scene0
        /\ bpy = EmptyHost
        /\ texture_id = 0 /\ tex = EmptyTex /\ bake = EmptyBake

\* C8, its case: a run over a scene that has an object but no mesh ended.
C8_Witness ==
    /\ pc = "done"
    /\ objects # <<>>
    /\ MeshIndices(scene0) = <<>>
    /\ console = <<"No objects to process">>

\* C9: in a run with a mesh object the texture file is opened only when some
\* face is textured through an active UV layer, and it has been opened by
\* the end of every such run; when no face is textured nothing is baked, no
\* scratch material, image, texture or UV layer is created and the texture
\* file is not written.
C9_TextureGate ==
    MeshIndices(scene0) # <<>> =>
        /\ "txr" \in files => AnyFaceTextured(scene0)
        /\ (pc = "done" /\ AnyFaceTextured(scene0)) => "txr" \in files
        /\ ~AnyFaceTextured(scene0) =>
             /\ txr_file = <<>>
             /\ bpy = EmptyHost
             /\ \A i \in DOMAIN objects :
                  objects[i].uv = scene0[i].uv /\ objects[i].materials = scene0[i].materials

\* C9, its case: a run ended over a mesh that has an active UV layer which
\* binds no image; the code file was written and the texture file was not.
C9_Witness ==
    /\ pc = "done"
    /\ \E i \in Range(MeshIndices(scene0)) : scene0[i].active # 0
    /\ ~AnyFaceTextured(scene0)
    /\ "c" \in files
    /\ "txr" \notin files

\* The mesh objects the code file defines a draw function for, in scene order.
Drawn == SelectSeq(MeshIndices(scene0), LAMBDA i : LinesOf(c_file, "func_Draw", i) # <<>>)

\* C10 as stated: in a scene with more than one mesh object every mesh
\* object but one, the root, has a draw function, and the root draw function
\* calls each of these functions once, in scene order.
C10_AllDrawn ==
    (pc = "done" /\ Len(MeshIndices(scene0)) > 1) =>
        /\ Len(Drawn) >= Len(MeshIndices(scene0)) - 1
        /\ \A k \in DOMAIN Drawn : Len(LinesOf(c_file, "func_Draw", Drawn[k])) = 1
        /\ [k \in DOMAIN LinesOfKind(c_file, "call_Draw") |-> LinesOfKind(c_file, "call_Draw")[k].obj]
             = Drawn

\* The places of the code file where a draw function starts, and for such a
\* place the place where the function ends.
DrawStarts == {s \in DOMAIN c_file : c_file[s].kind = "func_Draw"}
DrawEnd(s) ==
    CHOOSE e \in (s + 1)..Len(c_file) :
        /\ c_file[e].kind = "func_end"
        /\ \A j \in (s + 1)..(e - 1) : c_file[j].kind # "func_end"

\* The statements of the draw function that starts at s, in order: its
\* lines but the braces and the comments.
DrawBody(s) ==
    LET L == SelectSeq(SubSeq(c_file, s, DrawEnd(s)),
                       LAMBDA l : l.kind \notin {"open", "close", "comment"})
    IN [k \in DOMAIN L |-> L[k].kind]

\* What every draw function starts with.
DrawPrefix ==
    <<"func_Draw", "slPushMatrix", "slTranslate", "slScale", "slRotX", "slRotY", "slRotZ",
      "slPutPolygonX">>

\* The statements that belong inside a draw function.
DrawStatements ==
    {"slPushMatrix", "slTranslate", "slScale", "slRotX", "slRotY", "slRotZ", "slPutPolygonX",
     "call_Draw", "slPopMatrix"}

\* C11: every draw function of the code file is: push matrix, translate,
\* scale, rotate X, rotate Y, rotate Z, the polygon-draw call, then the child
\* draw calls (in the root function of a scene with more than one mesh object
\* only), then pop matrix, each once; and no such statement is written
\* outside a draw function.
C11_DrawOrder ==
    /\ \A s \in DrawStarts :
         LET b == DrawBody(s)
             n == Len(b)
         IN /\ n >= Len(DrawPrefix) + 2
            /\ SubSeq(b, 1, Len(DrawPrefix)) = DrawPrefix
            /\ \A j \in (Len(DrawPrefix) + 1)..(n - 2) : b[j] = "call_Draw"
            /\ b[n - 1] = "slPopMatrix"
            /\ b[n] = "func_end"
            /\ n > Len(DrawPrefix) + 2 => (c_file[s].obj = 0 /\ Len(MeshIndices(scene0)) > 1)
    /\ \A k \in DOMAIN c_file :
         c_file[k].kind \in DrawStatements => \E s \in DrawStarts : s < k /\ k < DrawEnd(s)

\* C11, its case: the code file has the draw function of a child and a root
\* draw function that calls it.
C11_Witness ==
    /\ \E s \in DrawStarts : c_file[s].obj # 0
    /\ \E s \in DrawStarts : c_file[s].obj = 0 /\ "call_Draw" \in Range(DrawBody(s))

\* The objects that hold a scratch resource: a temporary material, image or
\* texture of the host made for them, or a temporary UV layer.
ScratchHolders ==
    bpy.materials \cup bpy.images \cup bpy.textures
    \cup {i \in DOMAIN objects : \E l \in DOMAIN objects[i].uv : objects[i].uv[l].tmp}

\* Nothing made for the bake of object i is left on it or in the host.
ScratchGone(i) ==
    /\ i \notin ScratchHolders
    /\ Len(objects[i].uv) = Len(scene0[i].uv)
    /\ \A l \in DOMAIN objects[i].uv :
         \A f \in DOMAIN objects[i].uv[l].image : objects[i].uv[l].image[f] # SpriteImage
    /\ "_tmp" \notin Range(objects[i].materials)

\* C12 as stated: after a texture pass without a bake failure no temporary
\* material, image, texture or UV layer is left, no face is bound to the
\* sprite image and every object has as many material entries as before the
\* pass; and at no time do two objects hold scratch resources.
C12_ScratchReleased ==
    /\ (pc = "done" /\ result = "FINISHED" /\ "txr" \in files) =>
         \A i \in DOMAIN objects :
             ScratchGone(i) /\ Len(objects[i].materials) = Len(scene0[i].materials)
    /\ Cardinality(ScratchHolders) <= 1

\* The bake of a face raised: the face is bound to the sprite image (line
\* 492) and the binding was not cleared (line 548).
BakeRaised ==
    \E i \in DOMAIN objects : \E l \in DOMAIN objects[i].uv :
        SpriteImage \in Range(objects[i].uv[l].image)

\* C13: when the bake of a face raises, execute ends by the exception with
\* nothing printed for it; no face is baked after the failing one, neither of
\* the same object nor of a later one, and the texture file gets no
\* content; the geometry file holds every object whose encoding did not
\* raise and the code file is complete.
C13_BakeFailureAborts ==
    BakeRaised =>
        /\ pc = "done" /\ result = "raised"
        /\ Len(console) = Cardinality(failed)
        /\ \A k \in DOMAIN bpy.bakes :
             \/ bpy.bakes[k][1] < cur
             \/ bpy.bakes[k][1] = cur /\ bpy.bakes[k][2] < polyi
        /\ "txr" \in files /\ txr_file = <<>>
        /\ {"mdl", "c"} \subseteq files
        /\ \A i \in Range(MeshIndices(scene0)) : i \notin failed => Complete(i)
        /\ c_file # <<>> /\ c_file[Len(c_file)].kind = "func_end"
        /\ \E s \in DrawStarts : c_file[s].obj = 0

\* C13, its case: the bake of the first face of an object raised and the
\* object has a second textured face, which was not baked.
C13_Witness ==
    /\ result = "raised"
    /\ polyi = 1
    /\ Len(objects[cur].uv[1].image) >= 2
    /\ objects[cur].uv[1].image[2] # NoImage
    /\ bpy.bakes = <<>>

\* --------------------------------------------------- one export after another

\* The host runs the operator again after an export that finished: execute
\* (lines 30-56) starts over the scene as the last export left it, opening
\* its files anew.  The host calls it on a new instance of MDLExporter, whose
\* texture_id is the class attribute of line 28, or (when it repeats the
\* last operator) on the instance of the last export, whose texture_id is
\* the attribute line 163 stored on it; execute assigns texture_id nowhere.
ExecuteAgain ==
    /\ pc = "done"
    /\ result = "FINISHED"
    /\ bpy.exports < MaxRuns
    /\ \E same_instance \in BOOLEAN :
         texture_id' = IF same_instance THEN texture_id ELSE 0
    /\ bpy' = [bpy EXCEPT !.exports = @ + 1]
    /\ scene0' = objects
    /\ may_raise' = FALSE
    /\ pc' = "execute"
    /\ cur' = 0
    /\ polyi' = 0
    /\ failed' = {}
    /\ console' = <<>>
    /\ result' = ""
    /\ files' = {}
    /\ log_file' = <<>> /\ mdl_file' = <<>> /\ c_file' = <<>> /\ txr_file' = <<>>
    /\ tex' = EmptyTex
    /\ bake' = EmptyBake
    /\ UNCHANGED <<objects, base_name>>

NextRuns ==
    \/ Next
    \/ ExecuteAgain

SpecRuns == Init /\ [][NextRuns]_vars

\* C14 as stated: every export starts with the texture index counter at 0,
\* so the first textured polygon of an export whose encoding does not fail
\* is written with index 0, whatever the exports before it processed.
C14_ResetEachExport ==
    /\ pc \in {"execute", "export_mdl"} => texture_id = 0
    /\ (failed = {} /\ TexturedAttributes # <<>>) => TexturedAttributes[1][3] = 0

\* The names of the linking records (XPD_<name>) the geometry file declares.
DeclaredXpd == {mdl_file[k].name : k \in {j \in DOMAIN mdl_file : mdl_file[j].kind = "XPDATA"}}

\* C15 as stated: every polygon-draw call of the code file, in the root draw
\* function and in the child draw functions, references a linking record
\* that the geometry file of the run declares.
C15_DrawCallsDeclared ==
    \A k \in DOMAIN c_file :
        c_file[k].kind = "slPutPolygonX" => c_file[k].name \in DeclaredXpd

\* The lines that declare an identifier: the arrays and the linking record
\* of an object in the geometry file, the transform-state variables and the
\* draw functions in the code file.
DeclarationKinds ==
    {"POINT_decl", "POLYGON_decl", "ATTR_decl", "VECTOR_decl", "XPDATA",
     "FIXED_pos", "ANGLE_ang", "FIXED_scl", "func_Draw"}

\* No two lines of the file declare the same identifier.
DeclaredOnce(file) ==
    \A j, k \in DOMAIN file :
        (j < k /\ file[j].kind \in DeclarationKinds /\ file[j].kind = file[k].kind)
            => file[j].name # file[k].name

\* C16 as stated: the mesh objects of a scene have different names, and no
\* identifier is declared twice in the geometry file or in the code file.
C16_NoDuplicateIdentifier ==
    DeclaredOnce(mdl_file) /\ DeclaredOnce(c_file)

====
